---- MODULE Spec2Model ----
(***************************************************************************)
(* Model of pkg/api/customization/project/project_store.go: the project     *)
(* store wrapper that intercepts Create, Update and Delete before they      *)
(* reach the embedded types.Store.                                          *)
(*                                                                          *)
(* A request is one atomic action (the wrapper holds no state between       *)
(* calls and takes no lock).  The state is the content of the underlying    *)
(* store as the project lister sees it, plus a record of the last request: *)
(* what came in, which collaborators were called in which order and with    *)
(* what, and what was returned.                                             *)
(***************************************************************************)
EXTENDS Integers, Sequences, FiniteSets, TLC

VARIABLES
    projects,    \* underlying store / lister cache: <<namespace, name>> -> Labels
    op,          \* last request: "none", "Create", "Update" or "Delete"
    dataIn,      \* payload as the caller handed it in
    data,        \* the caller's payload map once the request returned
    id,          \* id argument of the request (token sequence)
    listed,      \* what roleTemplateLister.List returned in this request
    trace,       \* collaborator calls of this request, in order
    fitCalls,    \* calls of resourcequota.IsQuotaFit: arguments and results
    lookups,     \* calls of projectLister.Get: arguments and results
    storeCalls,  \* calls of the embedded Store: arguments and results
    ret          \* what the request returned: [result, err]

vars == <<projects, op, dataIn, data, id, listed, trace, fitCalls, lookups, storeCalls, ret>>

----------------------------------------------------------------------------
(* Bounds of the model *)

\* largest number written in a quantity string
MaxQty == 1

\* longest role-template listing
MaxTemplates == 2

----------------------------------------------------------------------------
(* Constants of the source *)

roleTemplatesRequired == "authz.management.cattle.io/creator-role-bindings"

quotaField == "resourceQuota"

namespaceQuotaField == "namespaceDefaultResourceQuota"

systemProjectLabel == "authz.management.cattle.io/system-project"

----------------------------------------------------------------------------
(* Values *)

\* a Go map with no entry (also a nil map: both read the same)
EmptyMap == [k \in {} |-> <<>>]

\* error values; msg is the message as a sequence of words
Err(kind, field, msg) == [kind |-> kind, field |-> field, msg |-> msg]

NoErr == Err("nil", "", <<>>)

\* (nil, err) and (result, err) pairs returned by the store and the wrapper
Returned(result, err) == [result |-> result, err |-> err]

\* payload values of a quota field: the key is missing, the value is nil,
\* the value is not an object, or it is an object holding a limit map
Absent == [tag |-> "absent", limit |-> EmptyMap]

Nil == [tag |-> "nil", limit |-> EmptyMap]

Malformed == [tag |-> "string", limit |-> EmptyMap]

QuotaObject(l) == [tag |-> "object", limit |-> l]

\* map[string]interface{} of a project: the four keys the wrapper and the
\* store of this model read
Payload(q, nq, labels, annotations) ==
    [resourceQuota |-> q, namespaceDefaultResourceQuota |-> nq,
     labels |-> labels, annotations |-> annotations]

NoData == Payload(Absent, Absent, EmptyMap, EmptyMap)

RoleTemplate(name, default, locked) ==
    [Name |-> name, ProjectCreatorDefault |-> default, Locked |-> locked]

----------------------------------------------------------------------------
(* Quantities and limit sets *)

\* A quantity string is a number followed by a suffix: <<500, "m">> is "500m".
Suffixes == {"m", "", "Ki"}

\* a suffix outside the quantity grammar, as in "1x"
BadSuffix == "x"

\* what one unit of each suffix is worth, in thousandths
Multiplier(suffix) ==
    CASE suffix = "m"  -> 1
      [] suffix = ""   -> 1000
      [] suffix = "Ki" -> 1024 * 1000

\* parse(quantityString) -> NumericMagnitude | ParseError
ParseQuantity(q) ==
    IF q[2] \in Suffixes
    THEN [magnitude |-> q[1] * Multiplier(q[2]), err |-> NoErr]
    ELSE [magnitude |-> 0, err |-> Err("ParseError", "", <<q[2]>>)]

\* resource names in the natural key order of a limit set
ResourceOrder == <<"cpu", "memory">>

NamesOf(limit) == SelectSeq(ResourceOrder, LAMBDA n : n \in DOMAIN limit)

\* The walk of the fit checker over the child's resource names: a name absent
\* in the parent is unbounded; a name present in both is parsed on both
\* sides, a parse error ends the walk, and a child magnitude above the
\* parent's adds the name to the violations.
RECURSIVE FitWalk(_, _, _, _)
FitWalk(names, child, parent, violations) ==
    IF names = <<>>
    THEN [isFit |-> violations = <<>>, msg |-> violations, err |-> NoErr]
    ELSE LET n == Head(names)
             c == ParseQuantity(child[n])
             p == ParseQuantity(parent[n])
         IN  IF n \notin DOMAIN parent
             THEN FitWalk(Tail(names), child, parent, violations)
             ELSE IF c.err # NoErr
             THEN [isFit |-> FALSE, msg |-> <<>>, err |-> c.err]
             ELSE IF p.err # NoErr
             THEN [isFit |-> FALSE, msg |-> <<>>, err |-> p.err]
             ELSE IF c.magnitude > p.magnitude
             THEN FitWalk(Tail(names), child, parent, Append(violations, n))
             ELSE FitWalk(Tail(names), child, parent, violations)

\* a fit checker that reports the first violating name only
IsQuotaFitFirstOnly(child, intermediate, parent) ==
    LET out == FitWalk(NamesOf(child), child, parent, <<>>)
    IN  [out EXCEPT !.msg = IF Len(@) > 1 THEN <<@[1]>> ELSE @]

\* resourcequota.IsQuotaFit(nsLimit, nsLimits, projectLimit); the only call
\* site passes no intermediate tiers
IsQuotaFit(child, intermediate, parent) ==
    FitWalk(NamesOf(child), child, parent, <<>>)

----------------------------------------------------------------------------
(* validateResourceQuota *)

\* presence by key alone, without the nil check
FieldPresentKeyOnly(payload, field) == payload[field].tag # "absent"

\* quotaO, quotaOk := data[field]; if quotaO == nil { quotaOk = false }
FieldPresent(payload, field) ==
    LET quotaO == payload[field]
        quotaOk == quotaO.tag # "absent"
    IN  IF quotaO.tag \in {"absent", "nil"} THEN FALSE ELSE quotaOk

\* a conversion that refuses nil
ToObjNilFails(quotaO) ==
    IF quotaO.tag = "object"
    THEN [Limit |-> <<quotaO.limit>>, err |-> NoErr]
    ELSE [Limit |-> <<>>, err |-> Err("ConversionError", "", <<quotaO.tag>>)]

\* convert.ToObj(quotaO, &quota): nil gives the zero struct, whose Limit is
\* a nil pointer; an object gives its limit; anything else does not decode.
\* A pointer is a sequence of at most one element.
ToObj(quotaO) ==
    CASE quotaO.tag \in {"absent", "nil"} -> [Limit |-> <<>>, err |-> NoErr]
      [] quotaO.tag = "object" -> [Limit |-> <<quotaO.limit>>, err |-> NoErr]
      [] OTHER -> [Limit |-> <<>>, err |-> Err("ConversionError", "", <<quotaO.tag>>)]

\* limitToLimit(from): a nil pointer converts to the zero limit
limitToLimit(from) ==
    [to |-> IF from = <<>> THEN EmptyMap ELSE from[1], err |-> NoErr]

FitCall(child, intermediate, parent, out) ==
    [child |-> child, intermediate |-> intermediate, parent |-> parent,
     isFit |-> out.isFit, msg |-> out.msg, err |-> out.err]

\* the same call with the two limit sets in each other's place
CheckFitSwapped(nsQuotaLimit, projectQuotaLimit) ==
    FitCall(projectQuotaLimit, <<>>, nsQuotaLimit,
            IsQuotaFit(projectQuotaLimit, <<>>, nsQuotaLimit))

\* resourcequota.IsQuotaFit(nsQuotaLimit, []*v3.ResourceQuotaLimit{}, projectQuotaLimit)
CheckFit(nsQuotaLimit, projectQuotaLimit) ==
    FitCall(nsQuotaLimit, <<>>, projectQuotaLimit,
            IsQuotaFit(nsQuotaLimit, <<>>, projectQuotaLimit))

Validation(err, calls, fits) == [err |-> err, trace |-> calls, fitCalls |-> fits]

\* func (s *projectStore) validateResourceQuota(apiContext, schema, data, id)
validateResourceQuota(payload) ==
    LET quotaOk == FieldPresent(payload, quotaField)
        namespaceQuotaOk == FieldPresent(payload, namespaceQuotaField)
        nsQuota == ToObj(payload[namespaceQuotaField])
        projectQuota == ToObj(payload[quotaField])
        projectQuotaLimit == limitToLimit(projectQuota.Limit)
        nsQuotaLimit == limitToLimit(nsQuota.Limit)
        fit == CheckFit(nsQuotaLimit.to, projectQuotaLimit.to)
        t1 == <<"validateResourceQuota">>
        t2 == Append(t1, "convert.ToObj")
        t3 == Append(t2, "convert.ToObj")
        t4 == Append(t3, "limitToLimit")
        t5 == Append(t4, "limitToLimit")
        t6 == Append(t5, "resourcequota.IsQuotaFit")
    IN  IF quotaOk # namespaceQuotaOk
        THEN IF quotaOk
             THEN Validation(Err("MissingRequired", namespaceQuotaField, <<>>), t1, <<>>)
             ELSE Validation(Err("MissingRequired", quotaField, <<>>), t1, <<>>)
        ELSE IF nsQuota.err # NoErr THEN Validation(nsQuota.err, t2, <<>>)
        ELSE IF projectQuota.err # NoErr THEN Validation(projectQuota.err, t3, <<>>)
        ELSE IF projectQuotaLimit.err # NoErr THEN Validation(projectQuotaLimit.err, t4, <<>>)
        ELSE IF nsQuotaLimit.err # NoErr THEN Validation(nsQuotaLimit.err, t5, <<>>)
        ELSE IF fit.err # NoErr \/ fit.isFit THEN Validation(fit.err, t6, <<fit>>)
        ELSE Validation(Err("MaxLimitExceeded", namespaceQuotaField,
                            <<"exceeds", quotaField, "on fields:">> \o fit.msg),
                        t6, <<fit>>)

----------------------------------------------------------------------------
(* createProjectAnnotation *)

\* the loop without the test of Locked
RECURSIVE AnnoLoopNoLock(_, _)
AnnoLoopNoLock(rt, annoMap) ==
    IF rt = <<>>
    THEN annoMap
    ELSE LET role == Head(rt)
             required == IF "required" \in DOMAIN annoMap
                         THEN annoMap["required"] ELSE <<>>
         IN  IF role.ProjectCreatorDefault
             THEN AnnoLoopNoLock(Tail(rt),
                                 [k \in DOMAIN annoMap \cup {"required"} |->
                                     IF k = "required" THEN Append(required, role.Name)
                                     ELSE annoMap[k]])
             ELSE AnnoLoopNoLock(Tail(rt), annoMap)

\* the loop over the listed role templates: annoMap["required"] comes into
\* being with the first template that is a project-creator default and not
\* locked
RECURSIVE AnnoLoop(_, _)
AnnoLoop(rt, annoMap) ==
    IF rt = <<>>
    THEN annoMap
    ELSE LET role == Head(rt)
             required == IF "required" \in DOMAIN annoMap
                         THEN annoMap["required"] ELSE <<>>
         IN  IF role.ProjectCreatorDefault /\ ~role.Locked
             THEN AnnoLoop(Tail(rt),
                           [k \in DOMAIN annoMap \cup {"required"} |->
                               IF k = "required" THEN Append(required, role.Name)
                               ELSE annoMap[k]])
             ELSE AnnoLoop(Tail(rt), annoMap)

\* JSON text is a sequence of tokens; a string token carries its quotes
Quote(str) == "\"" \o str \o "\""

RECURSIVE MarshalStrings(_)
MarshalStrings(strs) ==
    IF strs = <<>> THEN <<>>
    ELSE IF Len(strs) = 1 THEN <<Quote(strs[1])>>
    ELSE <<Quote(strs[1]), ",">> \o MarshalStrings(Tail(strs))

\* the keys a map[string][]string of this model can hold, in sorted order
AnnoKeyOrder == <<"required">>

RECURSIVE MarshalEntries(_, _)
MarshalEntries(keys, m) ==
    IF keys = <<>> THEN <<>>
    ELSE <<Quote(keys[1]), ":", "[">> \o MarshalStrings(m[keys[1]]) \o <<"]">>
         \o (IF Len(keys) = 1 THEN <<>> ELSE <<",">> \o MarshalEntries(Tail(keys), m))

\* json.Marshal handed the slice annoMap["required"] instead of the map
MarshalSlice(m) ==
    IF "required" \in DOMAIN m
    THEN <<"[">> \o MarshalStrings(m["required"]) \o <<"]">>
    ELSE <<"null">>

\* json.Marshal of a map[string][]string
Marshal(m) ==
    <<"{">>
    \o MarshalEntries(SelectSeq(AnnoKeyOrder, LAMBDA k : k \in DOMAIN m), m)
    \o <<"}">>

Annotation(str, err) == [str |-> str, err |-> err]

\* func (s *projectStore) createProjectAnnotation() (string, error)
createProjectAnnotation(list) ==
    IF list.err # NoErr
    THEN Annotation(<<>>, list.err)
    ELSE Annotation(Marshal(AnnoLoop(list.roles, EmptyMap)), NoErr)

\* a put that replaces the whole annotations map
PutValueReplace(payload, value, key) ==
    [payload EXCEPT !.annotations = (key :> value)]

\* values.PutValue(data, value, "annotations", key)
PutValue(payload, value, key) ==
    [payload EXCEPT !.annotations =
        [k \in DOMAIN @ \cup {key} |-> IF k = key THEN value ELSE @[k]]]

----------------------------------------------------------------------------
(* The collaborators: the embedded Store and the project lister *)

\* strings.Split(id, ":") over the tokens of the id
RECURSIVE SplitWalk(_, _, _)
SplitWalk(tokens, current, parts) ==
    IF tokens = <<>> THEN Append(parts, current)
    ELSE IF Head(tokens) = ":"
    THEN SplitWalk(Tail(tokens), "", Append(parts, current))
    ELSE SplitWalk(Tail(tokens), current \o Head(tokens), parts)

Split(tokens) == SplitWalk(tokens, "", <<>>)

\* the object an id names in the underlying store: namespace:name
StoreKey(tokens) ==
    LET parts == Split(tokens)
    IN  IF Len(parts) = 2 THEN <<parts[1], parts[2]>> ELSE <<>>

StoreOut(store, result, err) == [projects |-> store, ret |-> Returned(result, err)]

StoreCall(name, payload, tokens, out) ==
    [op |-> name, data |-> payload, id |-> tokens, ret |-> out.ret]

\* Store.Create: the store assigns the identity `key`; it fails on its own
\* account (fail) or when the key is taken
StoreCreate(store, payload, key, fail) ==
    IF fail THEN StoreOut(store, <<>>, Err("StoreError", "", <<>>))
    ELSE IF key \in DOMAIN store
    THEN StoreOut(store, <<>>, Err("AlreadyExists", "", <<>>))
    ELSE StoreOut([k \in DOMAIN store \cup {key} |->
                      IF k = key THEN payload.labels ELSE store[k]],
                  <<[id |-> key, data |-> payload]>>, NoErr)

\* Store.Update
StoreUpdate(store, payload, tokens, fail) ==
    LET key == StoreKey(tokens)
    IN  IF fail THEN StoreOut(store, <<>>, Err("StoreError", "", <<>>))
        ELSE IF key \notin DOMAIN store
        THEN StoreOut(store, <<>>, Err("NotFound", "", <<>>))
        ELSE StoreOut([store EXCEPT ![key] = payload.labels],
                      <<[id |-> key, data |-> payload]>>, NoErr)

\* Store.Delete
StoreDelete(store, tokens, fail) ==
    LET key == StoreKey(tokens)
    IN  IF fail THEN StoreOut(store, <<>>, Err("StoreError", "", <<>>))
        ELSE IF key \notin DOMAIN store
        THEN StoreOut(store, <<>>, Err("NotFound", "", <<>>))
        ELSE StoreOut([k \in DOMAIN store \ {key} |-> store[k]],
                      <<[id |-> key, data |-> NoData]>>, NoErr)

\* projectLister.Get(namespace, name)
ListerGet(store, namespace, name) ==
    IF <<namespace, name>> \in DOMAIN store
    THEN [Labels |-> store[<<namespace, name>>], err |-> NoErr]
    ELSE [Labels |-> EmptyMap, err |-> Err("NotFound", "", <<namespace, name>>)]

\* proj.Labels[key]: a missing key reads as the empty string
LabelValue(labels, key) == IF key \in DOMAIN labels THEN labels[key] ELSE ""

\* the comparison against a differently cased literal
IsSystemProjectCased(labels) == LabelValue(labels, systemProjectLabel) = "True"

\* proj.Labels["authz.management.cattle.io/system-project"] == "true"
IsSystemProject(labels) == LabelValue(labels, systemProjectLabel) = "true"

\* the second segment taken for the project name
LookupArgsSecond(parts) == <<parts[1], parts[IF Len(parts) > 1 THEN 2 ELSE 1]>>

\* parts[0], parts[len(parts)-1]
LookupArgs(parts) == <<parts[1], parts[Len(parts)]>>

----------------------------------------------------------------------------
(* The three intercepted operations, as functions of the store content and  *)
(* of the request                                                           *)

Outcome(store, payload, calls, fits, gets, stores, out) ==
    [projects |-> store, data |-> payload, trace |-> calls, fitCalls |-> fits,
     lookups |-> gets, storeCalls |-> stores, ret |-> out]

\* func (s *projectStore) Create(apiContext, schema, data)
CreateRun(store, payload, list, key, fail) ==
    LET annotation == createProjectAnnotation(list)
        v == validateResourceQuota(payload)
        put == PutValue(payload, annotation.str, roleTemplatesRequired)
        out == StoreCreate(store, put, key, fail)
        t1 == <<"roleTemplateLister.List">>
        t2 == t1 \o v.trace
        t3 == t2 \o <<"values.PutValue", "Store.Create">>
    IN  IF annotation.err # NoErr
        THEN Outcome(store, payload, t1, <<>>, <<>>, <<>>, Returned(<<>>, annotation.err))
        ELSE IF v.err # NoErr
        THEN Outcome(store, payload, t2, v.fitCalls, <<>>, <<>>, Returned(<<>>, v.err))
        ELSE Outcome(out.projects, put, t3, v.fitCalls, <<>>,
                     <<StoreCall("Create", put, <<>>, out)>>, out.ret)

\* an Update that delegates whatever the validation said
UpdateRunUnchecked(store, payload, tokens, fail) ==
    LET v == validateResourceQuota(payload)
        out == StoreUpdate(store, payload, tokens, fail)
    IN  Outcome(out.projects, payload, Append(v.trace, "Store.Update"), v.fitCalls,
                <<>>, <<StoreCall("Update", payload, tokens, out)>>, out.ret)

\* func (s *projectStore) Update(apiContext, schema, data, id)
UpdateRun(store, payload, tokens, fail) ==
    LET v == validateResourceQuota(payload)
        out == StoreUpdate(store, payload, tokens, fail)
    IN  IF v.err # NoErr
        THEN Outcome(store, payload, v.trace, v.fitCalls, <<>>, <<>>, Returned(<<>>, v.err))
        ELSE Outcome(out.projects, payload, Append(v.trace, "Store.Update"), v.fitCalls,
                     <<>>, <<StoreCall("Update", payload, tokens, out)>>, out.ret)

\* func (s *projectStore) Delete(apiContext, schema, id)
DeleteRun(store, tokens, fail) ==
    LET parts == Split(tokens)
        args == LookupArgs(parts)
        proj == ListerGet(store, args[1], args[2])
        get == [namespace |-> args[1], name |-> args[2],
                Labels |-> proj.Labels, err |-> proj.err]
        out == StoreDelete(store, tokens, fail)
        t1 == <<"strings.Split", "projectLister.Get">>
    IN  IF proj.err # NoErr
        THEN Outcome(store, NoData, t1, <<>>, <<get>>, <<>>, Returned(<<>>, proj.err))
        ELSE IF IsSystemProject(proj.Labels)
        THEN Outcome(store, NoData, t1, <<>>, <<get>>, <<>>,
                     Returned(<<>>, Err("MethodNotAllowed", "",
                                        <<"System Project cannot be deleted">>)))
        ELSE Outcome(out.projects, NoData, Append(t1, "Store.Delete"), <<>>, <<get>>,
                     <<StoreCall("Delete", NoData, tokens, out)>>, out.ret)

----------------------------------------------------------------------------
(* Requests *)

Listing(roles, err) == [roles |-> roles, err |-> err]

NoListing == Listing(<<>>, NoErr)

ListFailed == Listing(<<>>, Err("ListError", "", <<>>))

\* the request is recorded and its outcome takes effect
Handle(name, payload, tokens, list, out) ==
    /\ op' = name
    /\ dataIn' = payload
    /\ id' = tokens
    /\ listed' = list
    /\ projects' = out.projects
    /\ data' = out.data
    /\ trace' = out.trace
    /\ fitCalls' = out.fitCalls
    /\ lookups' = out.lookups
    /\ storeCalls' = out.storeCalls
    /\ ret' = out.ret

CreateOf(payloads, listings, keys) ==
    \E payload \in payloads, list \in listings, key \in keys, fail \in BOOLEAN :
        Handle("Create", payload, <<>>, list, CreateRun(projects, payload, list, key, fail))

UpdateOf(payloads, ids) ==
    \E payload \in payloads, tokens \in ids, fail \in BOOLEAN :
        Handle("Update", payload, tokens, NoListing, UpdateRun(projects, payload, tokens, fail))

DeleteOf(ids) ==
    \E tokens \in ids, fail \in BOOLEAN :
        Handle("Delete", NoData, tokens, NoListing, DeleteRun(projects, tokens, fail))

----------------------------------------------------------------------------
(* The inputs the requests are drawn from *)

SeqsUpTo(S, n) == UNION {[1..k -> S] : k \in 0..n}

MapsOver(keys, values) == UNION {[D -> values] : D \in SUBSET keys}

ProjectKeys == {<<"c1", "p1">>, <<"c1", "p2">>}

Ids == {<<"c1", ":", "p1">>, <<"c1", ":", "p2">>, <<"c1", ":", "p3">>,
        <<"p1">>, <<"c1", ":", "x", ":", "p1">>}

LabelMaps == MapsOver({systemProjectLabel}, {"true", "false"})

Quantities == {<<n, s>> : n \in 0..MaxQty, s \in Suffixes} \cup {<<1, BadSuffix>>}

LimitSets == MapsOver({"cpu", "memory"}, Quantities)

QuotaValues == {Absent, Nil, Malformed} \cup {QuotaObject(l) : l \in LimitSets}

Templates ==
    {RoleTemplate(n, d, l) : n \in {"owner", "editor", "legacy"},
                             d \in BOOLEAN, l \in BOOLEAN}

\* owner and editor are unlocked defaults, legacy is a locked default
ListedDefaults ==
    Listing(<<RoleTemplate("owner", TRUE, FALSE), RoleTemplate("editor", TRUE, FALSE),
              RoleTemplate("legacy", TRUE, TRUE)>>, NoErr)

AnnotationMaps ==
    MapsOver({roleTemplatesRequired, "description"}, {<<Quote("caller")>>})

\* requests that differ in labels and in which quota fields they carry
LabelPayloads ==
    {Payload(q, nq, labels, EmptyMap) :
        q \in {Absent, QuotaObject([memory |-> <<1, "Ki">>])},
        nq \in {Absent, QuotaObject([memory |-> <<1, "Ki">>])},
        labels \in LabelMaps}

\* requests that differ in their two quota fields
QuotaPayloads ==
    {Payload(q, nq, EmptyMap, EmptyMap) : q \in QuotaValues, nq \in QuotaValues}

\* requests that differ in their annotations, with and without a quota pair
AnnotationPayloads ==
    {Payload(q, Absent, EmptyMap, annotations) :
        q \in {Absent, QuotaObject(EmptyMap)}, annotations \in AnnotationMaps}

Listings == {Listing(roles, NoErr) : roles \in SeqsUpTo(Templates, MaxTemplates)}

----------------------------------------------------------------------------
(* Specifications *)

NoRequest ==
    /\ op = "none"
    /\ dataIn = NoData
    /\ data = NoData
    /\ id = <<>>
    /\ listed = NoListing
    /\ trace = <<>>
    /\ fitCalls = <<>>
    /\ lookups = <<>>
    /\ storeCalls = <<>>
    /\ ret = Returned(<<>>, NoErr)

\* the state after SetProjectStore: an empty store, no request yet
Init ==
    /\ projects = [k \in {} |-> EmptyMap]
    /\ NoRequest

Create == CreateOf(LabelPayloads, {ListedDefaults, ListFailed}, ProjectKeys)

Update == UpdateOf(LabelPayloads, Ids)

Delete == DeleteOf(Ids)

Next == Create \/ Update \/ Delete

\* any sequence of requests through the wrapper
Spec == Init /\ [][Next]_vars

\* a store that holds one project
InitOne ==
    /\ projects = (<<"c1", "p1">> :> EmptyMap)
    /\ NoRequest

\* one request with any pair of quota fields
CreateQuota ==
    /\ op = "none"
    /\ CreateOf(QuotaPayloads, {ListedDefaults, ListFailed}, {<<"c1", "p2">>})

UpdateQuota ==
    /\ op = "none"
    /\ UpdateOf(QuotaPayloads, {<<"c1", ":", "p1">>})

NextQuota == CreateQuota \/ UpdateQuota

SpecQuota == InitOne /\ [][NextQuota]_vars

\* one request under any role-template listing
CreateAnno ==
    /\ op = "none"
    /\ CreateOf(AnnotationPayloads, Listings \cup {ListedDefaults, ListFailed},
                {<<"c1", "p2">>})

UpdateAnno ==
    /\ op = "none"
    /\ UpdateOf(AnnotationPayloads, {<<"c1", ":", "p1">>})

NextAnno == CreateAnno \/ UpdateAnno

SpecAnno == InitOne /\ [][NextAnno]_vars

----------------------------------------------------------------------------
(* Properties *)

\* what the properties read off the recorded request
IsWrite == op \in {"Create", "Update"}

MarkedSystem(labels) ==
    systemProjectLabel \in DOMAIN labels /\ labels[systemProjectLabel] = "true"

Carries(value) == value.tag \notin {"absent", "nil"}

Validated == "validateResourceQuota" \in {trace[i] : i \in DOMAIN trace}

Called(name) == Cardinality({i \in DOMAIN trace : trace[i] = name})

Position(name) == CHOOSE i \in DOMAIN trace : trace[i] = name

Magnitude(q) == q[1] * Multiplier(q[2])

Parseable(limit) == \A n \in DOMAIN limit : limit[n][2] \in Suffixes

Exceeding(child, parent) ==
    {n \in DOMAIN child \cap DOMAIN parent : Magnitude(child[n]) > Magnitude(parent[n])}

Qualifying(roles) ==
    LET kept == SelectSeq(roles, LAMBDA r : r.ProjectCreatorDefault /\ ~r.Locked)
    IN  [i \in 1..Len(kept) |-> kept[i].Name]

RECURSIVE Commas(_)
Commas(strs) ==
    IF Len(strs) <= 1 THEN strs ELSE <<strs[1], ",">> \o Commas(Tail(strs))

\* the text {"required":["a","b"]}
RequiredJSON(names) ==
    <<"{", "\"required\"", ":", "[">>
    \o Commas([i \in 1..Len(names) |-> "\"" \o names[i] \o "\""])
    \o <<"]", "}">>

\* a JSON object with the one key "required" whose value is a list of strings
IsRequiredObject(text) ==
    /\ Len(text) >= 6
    /\ SubSeq(text, 1, 4) = <<"{", "\"required\"", ":", "[">>
    /\ SubSeq(text, Len(text) - 1, Len(text)) = <<"]", "}">>
    /\ LET items == SubSeq(text, 5, Len(text) - 2)
       IN  /\ Len(items) = 0 \/ Len(items) % 2 = 1
           /\ \A i \in DOMAIN items :
                 IF i % 2 = 0 THEN items[i] = ","
                 ELSE items[i] \in {"\"" \o t.Name \o "\"" : t \in Templates}

\* C1: a Delete whose lookup succeeds with the system-project label "true"
\* returns MethodNotAllowed without calling the store's delete, and no
\* request removes from the store a project that carries that label.
C1_SystemProjectKept ==
    [][/\ (/\ op' = "Delete"
           /\ lookups'[1].err = NoErr
           /\ MarkedSystem(lookups'[1].Labels))
          => /\ ret'.err.kind = "MethodNotAllowed"
             /\ ret'.result = <<>>
             /\ storeCalls' = <<>>
             /\ Called("Store.Delete")' = 0
       /\ \A k \in DOMAIN projects :
             MarkedSystem(projects[k]) => k \in DOMAIN projects']_vars

C1_Witness ==
    /\ op = "Delete"
    /\ lookups[1].err = NoErr
    /\ MarkedSystem(lookups[1].Labels)
    /\ ret.err.kind = "MethodNotAllowed"
    /\ StoreKey(id) \in DOMAIN projects

\* C2: a Create or Update calls the store's write at most once, and only
\* after the validation (and, for Create, the listing before it) returned no
\* error; a validation error is returned as it is with no store write, and
\* otherwise what the store returned is returned unchanged.
C2_WriteAfterValidation ==
    IsWrite =>
        LET v == validateResourceQuota(dataIn)
            write == "Store." \o op
            ready == (op = "Create" => listed.err = NoErr)
        IN  /\ Len(storeCalls) <= 1
            /\ Called(write) = Len(storeCalls)
            /\ storeCalls # <<>> =>
                  /\ ready /\ v.err = NoErr
                  /\ storeCalls[1].op = op
                  /\ Position("validateResourceQuota") < Position(write)
                  /\ op = "Create" =>
                        Position("roleTemplateLister.List") < Position("validateResourceQuota")
                  /\ ret = storeCalls[1].ret
            /\ ~ready => ret = Returned(<<>>, listed.err) /\ storeCalls = <<>>
            /\ (ready /\ v.err # NoErr) => ret = Returned(<<>>, v.err) /\ storeCalls = <<>>
            /\ (ready /\ v.err = NoErr) => Len(storeCalls) = 1

C2_Witness ==
    /\ op = "Update"
    /\ Carries(dataIn.resourceQuota)
    /\ Len(storeCalls) = 1
    /\ ret = storeCalls[1].ret
    /\ ret.err.kind = "StoreError"

\* C3: when exactly one of the two quota fields has a key with a non-nil
\* value, the validation fails with MissingRequired naming the absent field,
\* before any conversion or fit check.
C3_MissingRequired ==
    (IsWrite /\ Validated
       /\ Carries(dataIn.resourceQuota) # Carries(dataIn.namespaceDefaultResourceQuota))
    => /\ ret.result = <<>>
       /\ ret.err = Err("MissingRequired",
                        IF Carries(dataIn.resourceQuota)
                        THEN "namespaceDefaultResourceQuota" ELSE "resourceQuota",
                        <<>>)
       /\ trace = IF op = "Create"
                  THEN <<"roleTemplateLister.List", "validateResourceQuota">>
                  ELSE <<"validateResourceQuota">>
       /\ fitCalls = <<>>
       /\ storeCalls = <<>>

C3_Witness ==
    /\ op = "Update"
    /\ dataIn.resourceQuota = Nil
    /\ dataIn.namespaceDefaultResourceQuota.tag = "object"
    /\ ret.err = Err("MissingRequired", "resourceQuota", <<>>)

\* C4: with both quota fields present as objects, the fit checker is called
\* once with the namespace-default limits as child, no intermediate tiers
\* and the project limits as parent; not-fit gives MaxLimitExceeded on
\* namespaceDefaultResourceQuota with the violating names in the message, a
\* checker error is returned as it is, and fit gives no validation error.
C4_FitDecides ==
    (IsWrite /\ Validated
       /\ dataIn.resourceQuota.tag = "object"
       /\ dataIn.namespaceDefaultResourceQuota.tag = "object")
    => /\ Len(fitCalls) = 1
       /\ Called("resourcequota.IsQuotaFit") = 1
       /\ fitCalls[1].child = dataIn.namespaceDefaultResourceQuota.limit
       /\ fitCalls[1].intermediate = <<>>
       /\ fitCalls[1].parent = dataIn.resourceQuota.limit
       /\ (fitCalls[1].err = NoErr /\ ~fitCalls[1].isFit) =>
             /\ ret = Returned(<<>>, Err("MaxLimitExceeded", "namespaceDefaultResourceQuota",
                                         <<"exceeds", "resourceQuota", "on fields:">>
                                         \o fitCalls[1].msg))
             /\ fitCalls[1].msg # <<>>
             /\ storeCalls = <<>>
       /\ fitCalls[1].err # NoErr =>
             ret = Returned(<<>>, fitCalls[1].err) /\ storeCalls = <<>>
       /\ (fitCalls[1].err = NoErr /\ fitCalls[1].isFit) =>
             Len(storeCalls) = 1 /\ ret = storeCalls[1].ret

C4_Witness ==
    /\ op = "Create"
    /\ fitCalls # <<>>
    /\ fitCalls[1].child = [cpu |-> <<1, "">>, memory |-> <<1, "m">>]
    /\ fitCalls[1].parent = [cpu |-> <<1, "m">>]
    /\ ret.err.kind = "MaxLimitExceeded"
    /\ ret.err.msg = <<"exceeds", "resourceQuota", "on fields:", "cpu">>

\* C5: for parseable limit sets the fit checker answers fit exactly when
\* every name present in both has child magnitude <= parent magnitude; a
\* name in only one of the two never fails; and when it answers not-fit the
\* violations are all the names whose child magnitude exceeds the parent's,
\* and no other name.
C5_FitExact ==
    \A i \in DOMAIN fitCalls :
        LET c == fitCalls[i]
        IN  (Parseable(c.child) /\ Parseable(c.parent)) =>
               /\ c.err = NoErr
               /\ c.isFit <=> Exceeding(c.child, c.parent) = {}
               /\ {c.msg[j] : j \in DOMAIN c.msg} = Exceeding(c.child, c.parent)
               /\ Len(c.msg) = Cardinality(Exceeding(c.child, c.parent))

C5_Witness ==
    /\ fitCalls # <<>>
    /\ fitCalls[1].child = [cpu |-> <<1, "Ki">>, memory |-> <<1, "">>]
    /\ fitCalls[1].parent = [cpu |-> <<1, "">>, memory |-> <<1, "m">>]
    /\ ~fitCalls[1].isFit
    /\ fitCalls[1].msg = <<"cpu", "memory">>

\* the reserved annotation of the payload handed to the store's create
StoredAnnotation == storeCalls[1].data.annotations[roleTemplatesRequired]

CreateStored == op = "Create" /\ storeCalls # <<>>

\* C6 as stated: the payload handed to the store's create carries under the
\* reserved key the JSON encoding of the list, under key "required", of the
\* names of the listed templates that are default and unlocked, in listing
\* order.
C6_Stated ==
    CreateStored => StoredAnnotation = RequiredJSON(Qualifying(listed.roles))

\* C6: the payload handed to the store's create carries under the reserved
\* key, whatever the caller supplied there, the text {"required":[...]} of
\* the names of the listed templates that are default and unlocked, in
\* listing order, when there is at least one, and the text {} when there is
\* none.
C6_AnnotationContent ==
    CreateStored =>
        /\ roleTemplatesRequired \in DOMAIN storeCalls[1].data.annotations
        /\ StoredAnnotation =
              IF Qualifying(listed.roles) = <<>> THEN <<"{", "}">>
              ELSE RequiredJSON(Qualifying(listed.roles))

C6_Witness ==
    /\ CreateStored
    /\ listed = ListedDefaults
    /\ roleTemplatesRequired \in DOMAIN dataIn.annotations
    /\ dataIn.annotations[roleTemplatesRequired] = <<"\"caller\"">>
    /\ StoredAnnotation =
          <<"{", "\"required\"", ":", "[", "\"owner\"", ",", "\"editor\"", "]", "}">>
    /\ ret.err = NoErr

\* C7 as stated: for every listing the reserved annotation value is a JSON
\* object with exactly one key, "required", whose value is a list of strings.
C7_Stated == CreateStored => IsRequiredObject(StoredAnnotation)

\* C7: the reserved annotation value is a JSON object with the one key
\* "required", whose value is a non-empty list of strings, when some listed
\* template is default and unlocked, and the JSON object with no key
\* otherwise.
C7_AnnotationShape ==
    CreateStored =>
        IF \E i \in DOMAIN listed.roles :
              listed.roles[i].ProjectCreatorDefault /\ ~listed.roles[i].Locked
        THEN IsRequiredObject(StoredAnnotation) /\ Len(StoredAnnotation) > 6
        ELSE StoredAnnotation = <<"{", "}">>

C7_Witness ==
    /\ CreateStored
    /\ listed.roles = <<RoleTemplate("legacy", TRUE, TRUE), RoleTemplate("owner", FALSE, FALSE)>>
    /\ StoredAnnotation = <<"{", "}">>

\* C8: with both quota fields absent (key missing or value nil) the
\* validation passes, and the Create (its listing having succeeded) or
\* Update is delegated to the store.
C8_NoQuotaPasses ==
    (/\ IsWrite
     /\ op = "Create" => listed.err = NoErr
     /\ ~Carries(dataIn.resourceQuota)
     /\ ~Carries(dataIn.namespaceDefaultResourceQuota))
    => /\ Validated
       /\ Len(storeCalls) = 1
       /\ storeCalls[1].op = op
       /\ Called("Store." \o op) = 1
       /\ ret = storeCalls[1].ret
       /\ ret.err.kind \in {"nil", "StoreError", "AlreadyExists", "NotFound"}

C8_Witness ==
    /\ op = "Create"
    /\ dataIn.resourceQuota = Nil
    /\ dataIn.namespaceDefaultResourceQuota = Absent
    /\ Len(storeCalls) = 1
    /\ ret.err = NoErr
    /\ <<"c1", "p2">> \in DOMAIN projects

\* C9: Delete looks the project up by the first and the last segment of
\* the id; a lookup error is returned as it is without a store delete; a
\* project found whose system-project label is not "true" has the store's
\* delete called once with the whole id and its result returned unchanged.
\* (Every segment of the ids drawn is one token, so the first and the last
\* token of an id are its first and last segment.)
C9_DeleteLookup ==
    op = "Delete" =>
        /\ Len(lookups) = 1
        /\ lookups[1].namespace = id[1]
        /\ lookups[1].name = id[Len(id)]
        /\ lookups[1].err # NoErr =>
              /\ ret = Returned(<<>>, lookups[1].err)
              /\ storeCalls = <<>>
        /\ (lookups[1].err = NoErr /\ ~MarkedSystem(lookups[1].Labels)) =>
              /\ Len(storeCalls) = 1
              /\ Called("Store.Delete") = 1
              /\ storeCalls[1].op = "Delete"
              /\ storeCalls[1].id = id
              /\ ret = storeCalls[1].ret

C9_Witness ==
    /\ op = "Delete"
    /\ id = <<"c1", ":", "x", ":", "p1">>
    /\ lookups[1].namespace = "c1"
    /\ lookups[1].name = "p1"
    /\ lookups[1].err = NoErr
    /\ lookups[1].Labels = [k \in {systemProjectLabel} |-> "false"]
    /\ Len(storeCalls) = 1
    /\ storeCalls[1].id = id

\* C10: the payload changes only in a Create whose listing and validation
\* both succeeded, and then only at the reserved annotation key; a listing
\* error is returned before the validation runs; Update hands the payload
\* and the id it received to the store's update.
C10_PayloadFrame ==
    IsWrite =>
        /\ data # dataIn => CreateStored /\ listed.err = NoErr
        /\ data.resourceQuota = dataIn.resourceQuota
        /\ data.namespaceDefaultResourceQuota = dataIn.namespaceDefaultResourceQuota
        /\ data.labels = dataIn.labels
        /\ DOMAIN data.annotations \ {roleTemplatesRequired}
              = DOMAIN dataIn.annotations \ {roleTemplatesRequired}
        /\ \A k \in DOMAIN dataIn.annotations \ {roleTemplatesRequired} :
              data.annotations[k] = dataIn.annotations[k]
        /\ CreateStored => storeCalls[1].data = data
        /\ (op = "Create" /\ listed.err # NoErr) =>
              /\ trace = <<"roleTemplateLister.List">>
              /\ ret.err = listed.err
        /\ op = "Update" =>
              /\ data = dataIn
              /\ storeCalls # <<>> =>
                    storeCalls[1].data = dataIn /\ storeCalls[1].id = id

C10_Witness ==
    /\ CreateStored
    /\ DOMAIN dataIn.annotations = {"description"}
    /\ DOMAIN data.annotations = {"description", roleTemplatesRequired}
    /\ data.annotations["description"] = dataIn.annotations["description"]
    /\ data # dataIn

====
